---- MODULE Spec2Model ----
(***************************************************************************)
(* A state-machine model of WebRTCService (the signalling and negotiation  *)
(* orchestrator of the video-call front end).  The service object's fields *)
(* are the state; every public method, every event handler it installs on  *)
(* the WebSocket and on the RTCPeerConnection, the createSession timer and  *)
(* every resumption of an async method after an await is one action.       *)
(*                                                                         *)
(* Handles are small integers, 0 standing for null.  A callback slot holds *)
(* a chain of closures, written as a sequence of layers, <<>> for null.    *)
(***************************************************************************)
EXTENDS Integers, Sequences, FiniteSets

\* ---- bounds of the model ------------------------------------------------
MaxSockets == 2      \* WebSocket objects the caller may construct
MaxCreate == 1       \* createSession invocations
MaxSetups == 1       \* setupPeerConnection invocations made one after the other
MaxOverlap == 1      \* further invocations made while a peer connection is held
NumSessionIds == 1   \* distinct session ids the server may answer with
NumAnswers == 1      \* distinct SDP answers the server may send
MaxEmit == 2         \* invocations of one user callback that are counted
MaxSrd == 2          \* setRemoteDescription invocations on one peer connection
MaxPass == 1         \* pass-through closures stacked on the session-created slot
NumTracks == 1       \* tracks of a local media stream
MaxRemoteTracks == 2 \* remote tracks one peer connection receives (audio, video)
MaxComponentSockets == 3  \* WebSocket objects VideoCallComponent may construct

Sockets == 1..MaxSockets
Calls == 1..MaxCreate
Setups == 1..(MaxSetups + MaxOverlap)
SessionIds == 1..NumSessionIds
Answers == 1..NumAnswers
Tracks == 1..NumTracks
Langs == {"vi", "en"}
ComponentSockets == 1..MaxComponentSockets

VARIABLES
    websocket,        \* this.websocket: a socket handle or 0
    isConnected,      \* this.isConnected
    peerConnection,   \* this.peerConnection: a pc handle or 0
    localStream,      \* this.localStream: a stream handle or 0
    remoteStream,     \* this.remoteStream: a stream handle or 0
    sessionId,        \* this.sessionId: a session id or 0
    callbacks,        \* this.callbacks: slot name -> chain of closures
    sockets,          \* readyState of every WebSocket object built so far
    pcs,              \* every RTCPeerConnection object built so far
    stops,            \* stops[s][t]: how often track t of stream s was stopped
    cs,               \* the createSession invocations: promise, timer, closure
    sp,               \* the setupPeerConnection invocations: position, promise
    emitted,          \* how often the user's handler of each slot was invoked
    last,             \* the last step: operation, outcome, message handed to send
    component         \* VideoCallComponent: its socket, its flag, its timers

vars == <<websocket, isConnected, peerConnection, localStream, remoteStream,
          sessionId, callbacks, sockets, pcs, stops, cs, sp, emitted, last,
          component>>

service == <<websocket, isConnected, peerConnection, localStream, remoteStream,
             sessionId, callbacks>>

\* ---- the callback table -------------------------------------------------
EventNames == {"onConnectionStateChange", "onTranscript", "onTranslation",
               "onError", "onSessionCreated", "onCallEstablished", "onCallEnded"}

UserHandler == <<[kind |-> "user", id |-> 1]>>

\* the temporary closure createSession call k installs (lines 152-155)
Wrap(k, orig) == <<[kind |-> "wrap", id |-> k]>> \o orig

\* the closure sessionCreatedHandler leaves behind (lines 145-147)
Pass(orig) == <<[kind |-> "pass", id |-> 0]>> \o orig

NumPass(chain) == Cardinality({i \in DOMAIN chain : chain[i].kind = "pass"})

\* `if (this.callbacks.X) this.callbacks.X(...)` for a slot holding a user handler
CanEmit(name) == callbacks[name] = <<>> \/ emitted[name] < MaxEmit

Emit(em, name) ==
    IF callbacks[name] # <<>> THEN [em EXCEPT ![name] = @ + 1] ELSE em

\* ---- Promise settlement: only a pending promise changes -------------------
Resolve(c, k, v) ==
    IF c[k].status = "pending"
    THEN [c EXCEPT ![k].status = "resolved", ![k].value = v]
    ELSE c

Reject(c, k, e) ==
    IF c[k].status = "pending"
    THEN [c EXCEPT ![k].status = "rejected", ![k].err = e]
    ELSE c

\* ---- WebSocket.send -------------------------------------------------------
\* null handle: TypeError; CONNECTING: InvalidStateError; otherwise the frame
\* is taken (and silently discarded when the socket is CLOSING or CLOSED).
SendOutcome(ws) ==
    IF ws = 0 THEN "TypeError"
    ELSE IF sockets[ws] = "connecting" THEN "InvalidStateError"
    ELSE "ok"

Msg(action, sid, src, tgt, offer) ==
    [action |-> action, session_id |-> sid, source_lang |-> src,
     target_lang |-> tgt, offer |-> offer, sock |-> websocket,
     ready |-> sockets[websocket]]

NoMsg == [action |-> "none", session_id |-> 0, source_lang |-> "",
          target_lang |-> "", offer |-> 0, sock |-> 0, ready |-> ""]

\* ---- construction ---------------------------------------------------------
NoCall == [status |-> "unused", value |-> 0, err |-> "none", timer |-> "none",
           orig |-> <<>>]

NoSetup == [status |-> "unused", target |-> 0, err |-> "none", over |-> 0]

NoPc == [state |-> "unused", signaling |-> "stable", local |-> 0, remote |-> 0,
         srdCalls |-> 0, tracks |-> 0]

\* a peer connection after close(): nothing reads its descriptions any more
ClosedPc == [NoPc EXCEPT !.state = "closed", !.signaling = "closed"]

\* VideoCallComponent before its effect has run (VideoCallComponent.jsx
\* lines 6-19): no socket, not connected, no reconnect timer set
NoComponent ==
    [mounted |-> "no", wsRef |-> 0, isConnected |-> FALSE, timers |-> 0,
     ws |-> [s \in ComponentSockets |-> "unused"],
     by |-> [s \in ComponentSockets |-> "none"]]

Init ==
    /\ component = NoComponent
    /\ websocket = 0
    /\ isConnected = FALSE
    /\ peerConnection = 0
    /\ localStream = 0
    /\ remoteStream = 0
    /\ sessionId = 0
    /\ callbacks = [n \in EventNames |-> <<>>]
    /\ sockets = [s \in Sockets |-> "unused"]
    /\ pcs = [p \in Setups |-> NoPc]
    /\ stops = [s \in Setups |-> [t \in Tracks |-> 0]]
    /\ cs = [k \in Calls |-> NoCall]
    /\ sp = [j \in Setups |-> NoSetup]
    /\ emitted = [n \in EventNames |-> 0]
    /\ last = [op |-> "constructor", out |-> "returned", msg |-> NoMsg]

\* a step of the service: it notes its outcome; the component is another
\* object, with a socket of its own, and is left alone
Done(op, out, msg) ==
    /\ last' = [op |-> op, out |-> out, msg |-> msg]
    /\ UNCHANGED component

\* ---- on(eventName, callback), lines 331-337 -------------------------------
RegisterNames == {"onCallEnded", "onSessionCreated", "unknownEvent"}

on(name) ==
    /\ IF name \in EventNames
       THEN callbacks' = [callbacks EXCEPT ![name] = UserHandler]
       ELSE callbacks' = callbacks
    /\ Done("on", IF name \in EventNames THEN "returned" ELSE "unknown", NoMsg)
    /\ UNCHANGED <<websocket, isConnected, peerConnection, localStream,
                   remoteStream, sessionId, sockets, pcs, stops, cs, sp, 
                   emitted>>

\* ---- connect(url), lines 30-72 --------------------------------------------
connect ==
    /\ \E s \in Sockets :
        /\ sockets[s] = "unused"
        /\ \A r \in Sockets : r < s => sockets[r] # "unused"
        /\ websocket' = s
        /\ sockets' = [sockets EXCEPT ![s] = "connecting"]
    /\ Done("connect", "pending", NoMsg)
    /\ UNCHANGED <<isConnected, peerConnection, localStream, remoteStream,
                   sessionId, callbacks, pcs, stops, cs, sp, emitted>>

\* the outcome of a handler that hands value v to the connection-state callback
Notified(v) ==
    IF callbacks["onConnectionStateChange"] # <<>> THEN v ELSE "returned"

\* websocket.onopen, lines 35-42
SocketOpen(s) ==
    /\ sockets[s] = "connecting"
    /\ CanEmit("onConnectionStateChange")
    /\ sockets' = [sockets EXCEPT ![s] = "open"]
    /\ isConnected' = TRUE
    /\ emitted' = Emit(emitted, "onConnectionStateChange")
    /\ Done("onopen", Notified("notified true"), NoMsg)
    /\ UNCHANGED <<websocket, peerConnection, localStream, remoteStream,
                   sessionId, callbacks, pcs, stops, cs, sp>>

\* The closing handshake starts (the server or the network ends the
\* connection): readyState becomes CLOSING and no handler runs until the close
\* event.
SocketClosing(s) ==
    /\ sockets[s] = "open"
    /\ sockets' = [sockets EXCEPT ![s] = "closing"]
    /\ Done("closing", "none", NoMsg)
    /\ UNCHANGED <<websocket, isConnected, peerConnection, localStream,
                   remoteStream, sessionId, callbacks, pcs, stops, cs, sp,
                   emitted>>

\* onclose that notifies but leaves the flag as it was
SocketCloseKeepsFlag(s) ==
    /\ sockets[s] \in {"connecting", "open", "closing"}
    /\ CanEmit("onConnectionStateChange")
    /\ sockets' = [sockets EXCEPT ![s] = "closed"]
    /\ isConnected' = isConnected
    /\ emitted' = Emit(emitted, "onConnectionStateChange")
    /\ Done("onclose", Notified("notified false"), NoMsg)
    /\ UNCHANGED <<websocket, peerConnection, localStream, remoteStream,
                   sessionId, callbacks, pcs, stops, cs, sp>>

\* websocket.onclose, lines 44-50
SocketClose(s) ==
    /\ sockets[s] \in {"connecting", "open", "closing"}
    /\ CanEmit("onConnectionStateChange")
    /\ sockets' = [sockets EXCEPT ![s] = "closed"]
    /\ isConnected' = FALSE
    /\ emitted' = Emit(emitted, "onConnectionStateChange")
    /\ Done("onclose", Notified("notified false"), NoMsg)
    /\ UNCHANGED <<websocket, peerConnection, localStream, remoteStream,
                   sessionId, callbacks, pcs, stops, cs, sp>>

\* ---- endCall(), lines 295-324 ---------------------------------------------
\* The close_session send is the one statement of endCall that can throw; when
\* it does, the statements after it (lines 317-323) are not executed.
EndCallSends == sessionId # 0 /\ isConnected

EndCallThrows == EndCallSends /\ SendOutcome(websocket) # "ok"

EndCallMsg ==
    IF EndCallSends /\ ~EndCallThrows
    THEN Msg("close_session", sessionId, "", "", 0)
    ELSE NoMsg

\* endCall that stops the tracks but keeps the stream handle
endCallKeepsStream(pcs0) ==
    /\ CanEmit("onCallEnded")
    /\ peerConnection' = 0
    /\ pcs' = IF peerConnection # 0
              THEN [pcs0 EXCEPT ![peerConnection] = ClosedPc]
              ELSE pcs0
    /\ localStream' = localStream
    /\ stops' = IF localStream # 0
                THEN [stops EXCEPT ![localStream] = [t \in Tracks |-> @[t] + 1]]
                ELSE stops
    /\ IF EndCallThrows
       THEN UNCHANGED <<remoteStream, sessionId, emitted>>
       ELSE /\ remoteStream' = 0
            /\ sessionId' = 0
            /\ emitted' = Emit(emitted, "onCallEnded")

\* pcs0 is the table of peer connections endCall starts from
endCall(pcs0) ==
    /\ CanEmit("onCallEnded")
    /\ peerConnection' = 0
    /\ pcs' = IF peerConnection # 0
              THEN [pcs0 EXCEPT ![peerConnection] = ClosedPc]
              ELSE pcs0
    /\ localStream' = 0
    /\ stops' = IF localStream # 0
                THEN [stops EXCEPT ![localStream] = [t \in Tracks |-> @[t] + 1]]
                ELSE stops
    /\ IF EndCallThrows
       THEN UNCHANGED <<remoteStream, sessionId, emitted>>
       ELSE /\ remoteStream' = 0
            /\ sessionId' = 0
            /\ emitted' = Emit(emitted, "onCallEnded")

\* endCall() invoked by the caller
EndCall ==
    /\ endCall(pcs)
    /\ Done("endCall", IF EndCallThrows THEN "threw" ELSE "returned", EndCallMsg)
    /\ UNCHANGED <<websocket, isConnected, callbacks, sockets, cs, sp>>

\* ---- disconnect(), lines 342-351 ------------------------------------------
disconnect ==
    /\ endCall(pcs)
    /\ IF EndCallThrows
       THEN /\ Done("disconnect", "threw", NoMsg)
            /\ UNCHANGED <<websocket, isConnected, sockets>>
       ELSE /\ sockets' = IF websocket # 0 /\ isConnected
                                /\ sockets[websocket] \in {"connecting", "open"}
                          THEN [sockets EXCEPT ![websocket] = "closing"]
                          ELSE sockets
            /\ websocket' = 0
            /\ isConnected' = FALSE
            /\ Done("disconnect", "returned", EndCallMsg)
    /\ UNCHANGED <<callbacks, cs, sp>>

\* setLanguages without the guard of lines 279-282
setLanguagesUnguarded(src, tgt) ==
    /\ IF SendOutcome(websocket) # "ok"
       THEN Done("setLanguages", "threw", NoMsg)
       ELSE Done("setLanguages", "sent",
                 Msg("set_languages", sessionId, src, tgt, 0))
    /\ UNCHANGED <<websocket, isConnected, peerConnection, localStream,
                   remoteStream, sessionId, callbacks, sockets, pcs, stops, cs,
                   sp, emitted>>

\* setLanguages that writes the two languages into each other's field
setLanguagesSwapped(src, tgt) ==
    /\ IF sessionId = 0 \/ ~isConnected
       THEN Done("setLanguages", "silent", NoMsg)
       ELSE IF SendOutcome(websocket) # "ok"
       THEN Done("setLanguages", "threw", NoMsg)
       ELSE Done("setLanguages", "sent",
                 Msg("set_languages", sessionId, tgt, src, 0))
    /\ UNCHANGED <<websocket, isConnected, peerConnection, localStream,
                   remoteStream, sessionId, callbacks, sockets, pcs, stops, cs,
                   sp, emitted>>

\* ---- setLanguages(sourceLang, targetLang), lines 278-290 ------------------
setLanguages(src, tgt) ==
    /\ IF sessionId = 0 \/ ~isConnected
       THEN Done("setLanguages", "silent", NoMsg)
       ELSE IF SendOutcome(websocket) # "ok"
       THEN Done("setLanguages", "threw", NoMsg)
       ELSE Done("setLanguages", "sent",
                 Msg("set_languages", sessionId, src, tgt, 0))
    /\ UNCHANGED <<websocket, isConnected, peerConnection, localStream,
                   remoteStream, sessionId, callbacks, sockets, pcs, stops, cs,
                   sp, emitted>>

\* createSession without the guard of lines 130-133
createSessionUnguarded(k) ==
    /\ cs[k].status = "unused"
    /\ \A j \in Calls : j < k => cs[j].status # "unused"
    /\ IF SendOutcome(websocket) # "ok"
       THEN /\ cs' = [cs EXCEPT ![k].status = "rejected",
                                ![k].err = SendOutcome(websocket)]
            /\ UNCHANGED callbacks
            /\ Done("createSession", "rejected", NoMsg)
       ELSE /\ callbacks' = [callbacks EXCEPT !["onSessionCreated"] = Wrap(k, @)]
            /\ cs' = [cs EXCEPT ![k].status = "pending", ![k].timer = "armed",
                                ![k].orig = callbacks["onSessionCreated"]]
            /\ Done("createSession", "pending",
                    Msg("create_session", 0, "", "", 0))
    /\ UNCHANGED <<websocket, isConnected, peerConnection, localStream,
                   remoteStream, sessionId, sockets, pcs, stops, sp, emitted>>

\* ---- createSession(), lines 128-168 ---------------------------------------
createSession(k) ==
    /\ cs[k].status = "unused"
    /\ \A j \in Calls : j < k => cs[j].status # "unused"
    /\ IF ~isConnected
       THEN /\ cs' = [cs EXCEPT ![k].status = "rejected", ![k].err = "NotConnected"]
            /\ UNCHANGED callbacks
            /\ Done("createSession", "rejected", NoMsg)
       ELSE IF SendOutcome(websocket) # "ok"
       THEN /\ cs' = [cs EXCEPT ![k].status = "rejected",
                                ![k].err = SendOutcome(websocket)]
            /\ UNCHANGED callbacks
            /\ Done("createSession", "rejected", NoMsg)
       ELSE /\ callbacks' = [callbacks EXCEPT !["onSessionCreated"] = Wrap(k, @)]
            /\ cs' = [cs EXCEPT ![k].status = "pending", ![k].timer = "armed",
                                ![k].orig = callbacks["onSessionCreated"]]
            /\ Done("createSession", "pending",
                    Msg("create_session", 0, "", "", 0))
    /\ UNCHANGED <<websocket, isConnected, peerConnection, localStream,
                   remoteStream, sessionId, sockets, pcs, stops, sp, emitted>>

\* the setTimeout callback of call k, lines 158-162; timers of equal delay
\* fire in the order they were set
TimerFire(k) ==
    /\ cs[k].timer = "armed"
    /\ \A j \in Calls : j < k => cs[j].timer # "armed"
    /\ cs' = [Reject(cs, k, "Timeout") EXCEPT ![k].timer = "fired"]
    /\ callbacks' = [callbacks EXCEPT !["onSessionCreated"] = cs[k].orig]
    /\ Done("timer", "returned", NoMsg)
    /\ UNCHANGED <<websocket, isConnected, peerConnection, localStream,
                   remoteStream, sessionId, sockets, pcs, stops, sp, 
                   emitted>>

\* setupPeerConnection without the session check of lines 176-178
setupPeerConnectionUnguarded(j) ==
    /\ sp[j].status = "unused"
    /\ \A i \in Setups : i < j => sp[i].status # "unused"
    /\ localStream' = j
    /\ peerConnection' = j
    /\ pcs' = [pcs EXCEPT ![j].state = "new"]
    /\ sp' = [sp EXCEPT ![j].status = "awaitOffer", ![j].over = localStream]
    /\ Done("setupPeerConnection", "pending", NoMsg)
    /\ UNCHANGED <<websocket, isConnected, remoteStream, sessionId, callbacks,
                   sockets, stops, cs, emitted>>

\* ---- setupPeerConnection(localStream), lines 175-249 ----------------------
\* Invocation j is handed stream j and builds peer connection j.  It runs to
\* the first await (createOffer, line 227).  sp[j].over notes the stream whose
\* handle line 180 overwrites.
setupPeerConnection(j) ==
    /\ sp[j].status = "unused"
    /\ \A i \in Setups : i < j => sp[i].status # "unused"
    /\ IF sessionId = 0
       THEN /\ sp' = [sp EXCEPT ![j].status = "threw", ![j].err = "NoSession"]
            /\ UNCHANGED <<localStream, peerConnection, pcs>>
            /\ Done("setupPeerConnection", "threw", NoMsg)
       ELSE /\ localStream' = j
            /\ peerConnection' = j
            /\ pcs' = [pcs EXCEPT ![j].state = "new"]
            /\ sp' = [sp EXCEPT ![j].status = "awaitOffer", ![j].over = localStream]
            /\ Done("setupPeerConnection", "pending", NoMsg)
    /\ UNCHANGED <<websocket, isConnected, remoteStream, sessionId, callbacks,
                   sockets, stops, cs, emitted>>

\* createOffer of pc j resolved: the method resumes and calls
\* this.peerConnection.setLocalDescription(offer), line 232
SetupOfferResolved(j) ==
    /\ sp[j].status = "awaitOffer"
    /\ pcs[j].state # "closed"
    /\ IF peerConnection = 0
       THEN /\ sp' = [sp EXCEPT ![j].status = "threw", ![j].err = "TypeError"]
            /\ Done("setupPeerConnection", "threw", NoMsg)
       ELSE /\ sp' = [sp EXCEPT ![j].status = "awaitSLD", ![j].target = peerConnection]
            /\ Done("setupPeerConnection", "pending", NoMsg)
    /\ UNCHANGED <<websocket, isConnected, peerConnection, localStream,
                   remoteStream, sessionId, callbacks, sockets, pcs, stops, cs,
                   emitted>>

\* a catch block that logs the rejection and does not rethrow it
SetupRejectedSwallowed(j) ==
    /\ sp[j].status \in {"awaitOffer", "awaitSLD"}
    /\ sp' = [sp EXCEPT ![j].status = "returned"]
    /\ Done("setupPeerConnection", "returned", NoMsg)
    /\ UNCHANGED <<websocket, isConnected, peerConnection, localStream,
                   remoteStream, sessionId, callbacks, sockets, pcs, stops, cs,
                   emitted>>

\* createOffer or setLocalDescription rejected: catch and rethrow, lines 245-248
SetupRejected(j) ==
    /\ sp[j].status \in {"awaitOffer", "awaitSLD"}
    /\ sp' = [sp EXCEPT ![j].status = "threw",
                        ![j].err = IF sp[j].status = "awaitOffer"
                                   THEN "createOffer" ELSE "setLocalDescription"]
    /\ Done("setupPeerConnection", "threw", NoMsg)
    /\ UNCHANGED <<websocket, isConnected, peerConnection, localStream,
                   remoteStream, sessionId, callbacks, sockets, pcs, stops, cs,
                   emitted>>

\* setLocalDescription resolved on the pc it was called on: the offer is that
\* pc's local description; the method resumes and sends process_offer,
\* lines 235-244.  A pc accepts only the offer its own createOffer produced:
\* handed the offer of another pc (line 232 reads this.peerConnection anew)
\* it rejects, which is SetupRejected.
SetupThrowsAtSend(pcs1) ==
    \/ websocket = 0
    \/ peerConnection = 0
    \/ pcs1[peerConnection].local = 0
    \/ SendOutcome(websocket) # "ok"

SetupLocalDescriptionSet(j) ==
    /\ sp[j].status = "awaitSLD"
    /\ sp[j].target = j
    /\ pcs[sp[j].target].state # "closed"
    /\ pcs' = [pcs EXCEPT ![sp[j].target].local = j,
                          ![sp[j].target].signaling = "have-local-offer"]
    /\ IF SetupThrowsAtSend(pcs')
       THEN /\ sp' = [sp EXCEPT ![j].status = "threw",
                                ![j].err = IF websocket # 0 /\ peerConnection # 0
                                              /\ pcs'[peerConnection].local # 0
                                           THEN SendOutcome(websocket)
                                           ELSE "TypeError"]
            /\ Done("setupPeerConnection", "threw", NoMsg)
       ELSE /\ sp' = [sp EXCEPT ![j].status = "returned"]
            /\ Done("setupPeerConnection", "returned",
                    Msg("process_offer", sessionId, "", "",
                        pcs'[peerConnection].local))
    /\ UNCHANGED <<websocket, isConnected, peerConnection, localStream,
                   remoteStream, sessionId, callbacks, sockets, stops, cs,
                   emitted>>

\* ---- the handlers setupPeerConnection installs on the peer connection -----
Terminal == {"disconnected", "failed", "closed"}

\* the transitions of RTCPeerConnection.connectionState that fire an event
\* (close() fires none)
PcStep == {<<"new", "connecting">>, <<"connecting", "connected">>,
           <<"connecting", "failed">>, <<"connected", "disconnected">>,
           <<"connected", "failed">>, <<"disconnected", "connected">>,
           <<"disconnected", "failed">>}

\* onconnectionstatechange of pc p, lines 217-224: it reads the state of
\* this.peerConnection, whichever pc that is at the time.  The transports of a
\* pc start connecting only when it has a remote description (the code adds
\* no remote candidate by other means).
ConnectionStateChange(p, st) ==
    /\ <<pcs[p].state, st>> \in PcStep
    /\ pcs[p].remote # 0
    /\ LET pcs1 == [pcs EXCEPT ![p].state = st] IN
       IF peerConnection = 0
       THEN /\ pcs' = pcs1
            /\ Done("onconnectionstatechange", "TypeError", NoMsg)
            /\ UNCHANGED <<peerConnection, localStream, remoteStream, sessionId,
                           stops, emitted>>
       ELSE IF pcs1[peerConnection].state \in Terminal
       THEN /\ endCall(pcs1)
            /\ Done("onconnectionstatechange",
                    IF EndCallThrows THEN "threw" ELSE "endCall", EndCallMsg)
       ELSE /\ pcs' = pcs1
            /\ Done("onconnectionstatechange", "returned", NoMsg)
            /\ UNCHANGED <<peerConnection, localStream, remoteStream, sessionId,
                           stops, emitted>>
    /\ UNCHANGED <<websocket, isConnected, callbacks, sockets, cs, sp>>

\* ontrack of pc p, lines 201-206: applying the remote description fires the
\* event once for every remote track
Track(p) ==
    /\ pcs[p].state \notin {"unused", "closed"}
    /\ pcs[p].remote # 0
    /\ pcs[p].tracks < MaxRemoteTracks
    /\ CanEmit("onCallEstablished")
    /\ pcs' = [pcs EXCEPT ![p].tracks = @ + 1]
    /\ remoteStream' = p
    /\ emitted' = Emit(emitted, "onCallEstablished")
    /\ Done("ontrack", "returned", NoMsg)
    /\ UNCHANGED <<websocket, isConnected, peerConnection, localStream,
                   sessionId, callbacks, sockets, stops, cs, sp>>

\* ---- handleRemoteAnswer(answer), lines 255-271 ----------------------------
\* setRemoteDescription(answer) takes effect only in have-local-offer; in any
\* other signalling state the browser rejects it and the catch reports onError.
handleRemoteAnswer(a) ==
    IF peerConnection = 0
    THEN UNCHANGED <<pcs, emitted>>
    ELSE /\ pcs[peerConnection].srdCalls < MaxSrd
         /\ IF pcs[peerConnection].signaling = "have-local-offer"
            THEN /\ pcs' = [pcs EXCEPT ![peerConnection].srdCalls = @ + 1,
                                       ![peerConnection].remote = a,
                                       ![peerConnection].signaling = "stable"]
                 /\ UNCHANGED emitted
            ELSE /\ CanEmit("onError")
                 /\ pcs' = [pcs EXCEPT ![peerConnection].srdCalls = @ + 1]
                 /\ emitted' = Emit(emitted, "onError")

OnAnswer(a) ==
    /\ handleRemoteAnswer(a)
    /\ UNCHANGED <<websocket, isConnected, peerConnection, localStream,
                   remoteStream, sessionId, callbacks, sockets, stops, cs, sp>>

\* ---- invoking the session-created slot ------------------------------------
\* st = [slot, cs, em]: the slot, the promises and the user-handler count as
\* the closures of the chain run one after the other.
RECURSIVE Invoke(_, _, _)
Invoke(chain, sid, st) ==
    IF chain = <<>> THEN st
    ELSE IF Head(chain).kind = "user" THEN [st EXCEPT !.em = @ + 1]
    ELSE IF Head(chain).kind = "pass" THEN Invoke(Tail(chain), sid, st)
    ELSE Invoke(Tail(chain), sid,
                [st EXCEPT !.cs = Resolve(@, Head(chain).id, sid),
                           !.slot = Pass(@)])

\* ---- handleWebSocketMessage(data), lines 78-122 ---------------------------
OnSessionCreated(sid) ==
    LET st == Invoke(callbacks["onSessionCreated"], sid,
                     [slot |-> callbacks["onSessionCreated"], cs |-> cs,
                      em |-> emitted["onSessionCreated"]])
    IN /\ NumPass(st.slot) <= MaxPass
       /\ st.em <= MaxEmit
       /\ sessionId' = sid
       /\ callbacks' = [callbacks EXCEPT !["onSessionCreated"] = st.slot]
       /\ cs' = st.cs
       /\ emitted' = [emitted EXCEPT !["onSessionCreated"] = st.em]
       /\ UNCHANGED <<websocket, isConnected, peerConnection, localStream,
                      remoteStream, sockets, pcs, stops, sp>>

OnSessionState(state) ==
    /\ CanEmit("onCallEnded")
    /\ emitted' = IF state = "closed" THEN Emit(emitted, "onCallEnded") ELSE emitted
    /\ UNCHANGED <<websocket, isConnected, peerConnection, localStream,
                   remoteStream, sessionId, callbacks, sockets, pcs, stops, cs,
                   sp>>

OnNotify(name) ==
    /\ CanEmit(name)
    /\ emitted' = Emit(emitted, name)
    /\ UNCHANGED <<websocket, isConnected, peerConnection, localStream,
                   remoteStream, sessionId, callbacks, sockets, pcs, stops, cs,
                   sp>>

handleWebSocketMessage(data) ==
    CASE data.action = "session_created" -> OnSessionCreated(data.session_id)
      [] data.action = "answer" -> OnAnswer(data.answer)
      [] data.action = "session_state" -> OnSessionState(data.state)
      [] data.action = "transcript" -> OnNotify("onTranscript")
      [] data.action = "translation" -> OnNotify("onTranslation")
      [] data.action = "error" -> OnNotify("onError")
      [] OTHER -> UNCHANGED <<websocket, isConnected, peerConnection, localStream,
                              remoteStream, sessionId, callbacks, sockets, pcs,
                              stops, cs, sp, emitted>>

\* the frames the server may send; wf = FALSE is a frame JSON.parse rejects
Frame(action, sid, answer, state) ==
    [wf |-> TRUE, action |-> action, session_id |-> sid, answer |-> answer,
     state |-> state]

Frames ==
    {Frame("session_created", i, 0, "") : i \in SessionIds}
    \cup {Frame("answer", 0, a, "") : a \in Answers}
    \cup {Frame("session_state", 0, 0, st) : st \in {"closed", "open"}}
    \cup {Frame("ping", 0, 0, "")}
    \cup {[Frame("", 0, 0, "") EXCEPT !.wf = FALSE]}

\* websocket.onmessage, lines 60-63
SocketMessage(s, frame) ==
    /\ sockets[s] = "open"
    /\ IF frame.wf
       THEN /\ handleWebSocketMessage(frame)
            /\ Done("onmessage",
                    IF frame.action = "session_state" /\ frame.state = "closed"
                    THEN "session_closed" ELSE frame.action, NoMsg)
       ELSE /\ Done("onmessage", "SyntaxError", NoMsg)
            /\ UNCHANGED <<websocket, isConnected, peerConnection, localStream,
                           remoteStream, sessionId, callbacks, sockets, pcs,
                           stops, cs, sp, emitted>>

\* ---- VideoCallComponent: its own control channel --------------------------
\* a step of the component: the service object is left alone
ComponentDone(op) ==
    /\ last' = [op |-> op, out |-> "returned", msg |-> NoMsg]
    /\ UNCHANGED <<websocket, isConnected, peerConnection, localStream,
                   remoteStream, sessionId, callbacks, sockets, pcs, stops, cs,
                   sp, emitted>>

\* connectWebSocket, VideoCallComponent.jsx lines 23-50, started by the effect
\* ("mount") or by the timer of onclose ("timer")
connectWebSocket(c, who) ==
    LET s == CHOOSE x \in ComponentSockets :
                 /\ c.ws[x] = "unused"
                 /\ \A r \in ComponentSockets : r < x => c.ws[r] # "unused"
    IN [c EXCEPT !.ws[s] = "connecting", !.by[s] = who, !.wsRef = s]

CanConnect == \E s \in ComponentSockets : component.ws[s] = "unused"

\* the effect runs when the component is mounted, lines 22-52
ComponentMount ==
    /\ component.mounted = "no"
    /\ component' = connectWebSocket([component EXCEPT !.mounted = "yes"], "mount")
    /\ ComponentDone("component.mount")

\* ws.onopen, lines 26-30; a state setter does nothing once unmounted
ComponentSocketOpen(s) ==
    /\ component.ws[s] = "connecting"
    /\ component' = [component EXCEPT
                        !.ws[s] = "open",
                        !.isConnected = IF component.mounted = "yes"
                                        THEN TRUE ELSE @]
    /\ ComponentDone("component.onopen")

\* the server or the network starts closing the component's socket
ComponentSocketClosing(s) ==
    /\ component.ws[s] = "open"
    /\ component' = [component EXCEPT !.ws[s] = "closing"]
    /\ ComponentDone("component.closing")

\* ws.onclose, lines 32-37: it sets a 3-second timer on connectWebSocket
ComponentSocketClose(s) ==
    /\ component.ws[s] \in {"connecting", "open", "closing"}
    /\ component' = [component EXCEPT
                        !.ws[s] = "closed",
                        !.isConnected = IF component.mounted = "yes"
                                        THEN FALSE ELSE @,
                        !.timers = @ + 1]
    /\ ComponentDone("component.onclose")

\* the timer set by onclose fires, line 36
ReconnectTimer ==
    /\ component.timers > 0
    /\ CanConnect
    /\ component' = connectWebSocket([component EXCEPT !.timers = @ - 1], "timer")
    /\ ComponentDone("component.timer")

\* the cleanup of the effect when the component is unmounted, lines 55-59
ComponentUnmount ==
    /\ component.mounted = "yes"
    /\ component' = [component EXCEPT
                        !.mounted = "unmounted",
                        !.ws = IF component.wsRef # 0
                                  /\ @[component.wsRef] \in {"connecting", "open"}
                               THEN [@ EXCEPT ![component.wsRef] = "closing"]
                               ELSE @]
    /\ ComponentDone("component.unmount")

Next ==
    \/ \E n \in RegisterNames : on(n)
    \/ connect
    \/ \E s \in Sockets : SocketOpen(s)
    \/ \E s \in Sockets : SocketClosing(s)
    \/ \E s \in Sockets : SocketClose(s)
    \/ \E s \in Sockets, f \in Frames : SocketMessage(s, f)
    \/ \E k \in Calls : createSession(k)
    \/ \E k \in Calls : TimerFire(k)
    \/ \E src, tgt \in Langs : setLanguages(src, tgt)
    \/ EndCall
    \/ disconnect
    \/ \E j \in Setups : setupPeerConnection(j)
    \/ \E j \in Setups : SetupOfferResolved(j)
    \/ \E j \in Setups : SetupRejected(j)
    \/ \E j \in Setups : SetupLocalDescriptionSet(j)
    \/ \E p \in Setups, st \in {"connecting", "connected", "disconnected", "failed"} :
            ConnectionStateChange(p, st)
    \/ \E p \in Setups : Track(p)

Spec == Init /\ [][Next]_vars

\* ---- scenarios: one control channel ---------------------------------------
\* The first connect(url) of the service object.
ConnectOnce == connect /\ sockets[1] = "unused"

\* Session scenario: the session handshake and the operations that depend on
\* the session id; no peer connection is set up.
SessionFrames == {f \in Frames : f.action # "answer"}

NextSession ==
    \/ \E n \in RegisterNames : on(n)
    \/ ConnectOnce
    \/ \E s \in Sockets : SocketOpen(s)
    \/ \E s \in Sockets : SocketClosing(s)
    \/ \E s \in Sockets : SocketClose(s)
    \/ \E s \in Sockets, f \in SessionFrames : SocketMessage(s, f)
    \/ \E k \in Calls : createSession(k)
    \/ \E k \in Calls : TimerFire(k)
    \/ \E src, tgt \in Langs : setLanguages(src, tgt)
    \/ EndCall
    \/ disconnect

SpecSession == Init /\ [][NextSession]_vars

\* Call scenario: the session id arrives in session_created frames; a call is
\* set up, negotiated and torn down, and the caller starts the next call only
\* when no peer connection is held.
StartCall(j) == setupPeerConnection(j) /\ peerConnection = 0 /\ j <= MaxSetups

CallFrames == {f \in Frames : f.wf /\ f.action # "ping"}

NextCall ==
    \/ on("onCallEnded")
    \/ ConnectOnce
    \/ \E s \in Sockets : SocketOpen(s)
    \/ \E s \in Sockets : SocketClosing(s)
    \/ \E s \in Sockets : SocketClose(s)
    \/ \E s \in Sockets, f \in CallFrames : SocketMessage(s, f)
    \/ EndCall
    \/ disconnect
    \/ \E j \in Setups : StartCall(j)
    \/ \E j \in Setups : SetupOfferResolved(j)
    \/ \E j \in Setups : SetupRejected(j)
    \/ \E j \in Setups : SetupLocalDescriptionSet(j)
    \/ \E p \in Setups, st \in {"connecting", "connected", "disconnected", "failed"} :
            ConnectionStateChange(p, st)
    \/ \E p \in Setups : Track(p)

SpecCall == Init /\ [][NextCall]_vars

\* Reconnect scenario: the call scenario with a caller that may call
\* connect(url) again, whatever the state of the socket it holds.
NextReconnect ==
    \/ on("onCallEnded")
    \/ connect
    \/ \E s \in Sockets : SocketOpen(s)
    \/ \E s \in Sockets : SocketClosing(s)
    \/ \E s \in Sockets : SocketClose(s)
    \/ \E s \in Sockets, f \in CallFrames : SocketMessage(s, f)
    \/ EndCall
    \/ disconnect
    \/ \E j \in Setups : StartCall(j)
    \/ \E j \in Setups : SetupOfferResolved(j)
    \/ \E j \in Setups : SetupRejected(j)
    \/ \E j \in Setups : SetupLocalDescriptionSet(j)
    \/ \E p \in Setups, st \in {"connecting", "connected", "disconnected", "failed"} :
            ConnectionStateChange(p, st)
    \/ \E p \in Setups : Track(p)

SpecReconnect == Init /\ [][NextReconnect]_vars

\* Channel scenario: the caller listens for connection-state changes; the
\* control channel is connected, closed from either side and connected again.
ChannelFrames == {f \in Frames : f.action \in {"session_created", "ping"}}

NextChannel ==
    \/ on("onConnectionStateChange")
    \/ connect
    \/ \E s \in Sockets : SocketOpen(s)
    \/ \E s \in Sockets : SocketClosing(s)
    \/ \E s \in Sockets : SocketClose(s)
    \/ \E s \in Sockets, f \in ChannelFrames : SocketMessage(s, f)
    \/ \E src, tgt \in Langs : setLanguages(src, tgt)
    \/ EndCall
    \/ disconnect

SpecChannel == Init /\ [][NextChannel]_vars

\* Component scenario: the control channels of both objects.  The service is
\* connected and disconnected by its caller, VideoCallComponent is mounted and
\* unmounted, and the sockets of both open and close.
NextComponent ==
    \/ connect
    \/ \E s \in Sockets : SocketOpen(s)
    \/ \E s \in Sockets : SocketClosing(s)
    \/ \E s \in Sockets : SocketClose(s)
    \/ disconnect
    \/ ComponentMount
    \/ \E s \in ComponentSockets : ComponentSocketOpen(s)
    \/ \E s \in ComponentSockets : ComponentSocketClosing(s)
    \/ \E s \in ComponentSockets : ComponentSocketClose(s)
    \/ ReconnectTimer
    \/ ComponentUnmount

SpecComponent == Init /\ [][NextComponent]_vars

\* Media scenario: the caller listens for call-established; a call is set up
\* on one control channel and the remote tracks arrive.
MediaFrames == {f \in Frames : f.action \in {"session_created", "answer"}}

NextMedia ==
    \/ on("onCallEstablished")
    \/ ConnectOnce
    \/ \E s \in Sockets : SocketOpen(s)
    \/ \E s \in Sockets, f \in MediaFrames : SocketMessage(s, f)
    \/ EndCall
    \/ \E j \in Setups : StartCall(j)
    \/ \E j \in Setups : SetupOfferResolved(j)
    \/ \E j \in Setups : SetupLocalDescriptionSet(j)
    \/ \E p \in Setups : Track(p)

SpecMedia == Init /\ [][NextMedia]_vars

\* the timers set by createSession do fire
SpecSessionFair == SpecSession /\ \A k \in Calls : WF_vars(TimerFire(k))

\* ---- the steps the claims speak of ----------------------------------------
StepOf(op) == last'.op = op /\ vars' # vars

Started(j) == sp[j].status # "unused" /\ sp[j].err # "NoSession"

Superseded(s) == \E j \in Setups : sp[j].over = s

Released(s) == Started(s) /\ localStream # s /\ ~Superseded(s)

CallsStarted == Cardinality({j \in Setups : Started(j)})

Settled(k) == cs[k].status \in {"resolved", "rejected"}

\* C1: for every call, whatever teardown triggers run and however often, each
\* track of the call's local stream is stopped exactly once: never more than
\* once, not while the stream is still held, and once when it has been let go.
C1_StopExactlyOnce ==
    \A s \in Setups : \A t \in Tracks :
        /\ stops[s][t] <= 1
        /\ (localStream = s => stops[s][t] = 0)
        /\ (Released(s) => stops[s][t] = 1)

\* a second endCall, arriving after the call was already torn down
C1_Witness ==
    /\ last.op = "endCall" /\ last.out = "returned" /\ last.msg = NoMsg
    /\ isConnected /\ websocket # 0
    /\ Released(1) /\ stops[1][1] = 1

\* C2: the user's call-ended handler is invoked at most once per started call.
C2_CallEndedOncePerCall == emitted["onCallEnded"] <= CallsStarted

\* C3: a session_state closed message received while the session id is set
\* tears the call down: stream, peer connection and session id are cleared and
\* call-ended fires.
C3_SessionClosedTearsDown ==
    [][(StepOf("onmessage") /\ last'.out = "session_closed" /\ sessionId # 0)
        => /\ sessionId' = 0
           /\ peerConnection' = 0
           /\ localStream' = 0
           /\ emitted' = Emit(emitted, "onCallEnded")]_vars

\* C4: once a createSession call has timed out and none is pending, a
\* session_created message alters nothing: the session id stays absent and no
\* promise or callback changes.
C4_LateSessionCreatedIgnored ==
    [][(/\ StepOf("onmessage") /\ last'.out = "session_created"
        /\ \E k \in Calls : cs[k].err = "Timeout"
        /\ \A k \in Calls : cs[k].status # "pending"
        /\ sessionId = 0)
        => /\ sessionId' = 0
           /\ cs' = cs
           /\ callbacks' = callbacks]_vars

\* C5: a createSession call that sent its request settles, and only once: a
\* session_created message that arrives while the call is pending (its timer
\* still armed) resolves it with that message's id; otherwise its timer rejects
\* it with the timeout error; a settled call never changes; no call stays
\* pending.
C5_Step ==
    \A k \in Calls :
        /\ (cs[k].status = "pending" /\ last'.op = "onmessage"
            /\ last'.out = "session_created")
             => (cs'[k].status = "resolved" /\ cs'[k].value = sessionId')
        /\ (cs[k].status = "pending" /\ cs'[k].status = "resolved")
             => /\ cs[k].timer = "armed"
                /\ last'.op = "onmessage" /\ last'.out = "session_created"
                /\ cs'[k].value = sessionId' /\ cs'[k].value \in SessionIds
        /\ (cs[k].status = "pending" /\ cs'[k].status = "rejected")
             => /\ last'.op = "timer"
                /\ cs'[k].err = "Timeout" /\ cs'[k].timer = "fired"
        /\ Settled(k)
             => (cs'[k].status = cs[k].status /\ cs'[k].value = cs[k].value
                 /\ cs'[k].err = cs[k].err)

\* C5: every step keeps to C5_Step, and every pending createSession call
\* eventually settles.
C5_SettlesOnce ==
    /\ [][C5_Step]_vars
    /\ \A k \in Calls : (cs[k].status = "pending") ~> Settled(k)

C7_OneRequestInFlight ==
    [][/\ (StepOf("createSession")
           /\ (sessionId # 0 \/ \E k \in Calls : cs[k].status = "pending"))
          => /\ last'.msg = NoMsg
             /\ \E k \in Calls : cs[k].status = "unused" /\ cs'[k].status = "rejected"
       /\ Cardinality({k \in Calls : cs[k].status = "pending"
                                     /\ cs'[k].status = "resolved"}) <= 1]_vars

\* C8: an answer message that arrives when the peer connection already has a
\* remote description is not applied: setRemoteDescription is not invoked
\* again and the description stays.
C8_RemoteDescriptionOnce ==
    [][(/\ StepOf("onmessage") /\ last'.out = "answer"
        /\ peerConnection # 0
        /\ pcs[peerConnection].remote # 0)
        => pcs' = pcs]_vars

C10_SetLanguagesFails ==
    [][(StepOf("setLanguages") /\ (sessionId = 0 \/ ~isConnected))
        => last'.out = "threw"]_vars

\* the control channel is open: the socket the service holds is in readyState
\* OPEN and the service knows it is connected
ChannelOpen == isConnected /\ websocket # 0 /\ sockets[websocket] = "open"

\* C11: a setLanguages(source, target) call made while a session is active and
\* the channel is open hands one set_languages message to the channel, with the
\* current session id and the source and target of that call.
C11_SetLanguagesSendsOne ==
    [][\A src, tgt \in Langs :
        (setLanguages(src, tgt) /\ sessionId # 0 /\ ChannelOpen)
        => /\ last'.out = "sent"
           /\ last'.msg = [action |-> "set_languages", session_id |-> sessionId,
                           source_lang |-> src, target_lang |-> tgt,
                           offer |-> 0, sock |-> websocket, ready |-> "open"]]_vars

C11_Witness ==
    /\ last.op = "setLanguages" /\ last.out = "sent"
    /\ last.msg.source_lang = "vi" /\ last.msg.target_lang = "en"
    /\ last.msg.session_id = sessionId /\ sessionId # 0
    /\ ChannelOpen

\* C12: during one call call-established is emitted once, on the first remote
\* track: the first track event of a peer connection invokes the handler, and
\* a further track event of the same peer connection does not invoke it again.
C12_CallEstablishedOnce ==
    [][\A p \in Setups :
        (StepOf("ontrack") /\ pcs'[p].tracks = pcs[p].tracks + 1)
        => IF pcs[p].tracks = 0
           THEN emitted' = Emit(emitted, "onCallEstablished")
           ELSE emitted' = emitted]_vars

\* C13: the session id is set only by a session_created message that answers
\* a createSession request in flight: a session_created message received
\* while no createSession call is pending leaves the session id as it was.
C13_SessionIdOnlyWhenRequested ==
    [][(/\ StepOf("onmessage") /\ last'.out = "session_created"
        /\ \A k \in Calls : cs[k].status # "pending")
        => sessionId' = sessionId]_vars

TornDown ==
    /\ peerConnection' = 0 /\ localStream' = 0 /\ sessionId' = 0
    /\ localStream # 0 => \A t \in Tracks : stops'[localStream][t] = 1
    /\ peerConnection # 0 => pcs'[peerConnection].state = "closed"

\* setLocalDescription of a setupPeerConnection invocation was rejected
LocalDescriptionFails ==
    /\ StepOf("setupPeerConnection")
    /\ \E j \in Setups : sp[j].status = "awaitSLD"
                          /\ sp'[j].err = "setLocalDescription"

\* an answer reached a peer connection that cannot take it
RemoteDescriptionFails ==
    /\ StepOf("onmessage") /\ last'.out = "answer"
    /\ peerConnection # 0
    /\ pcs[peerConnection].signaling # "have-local-offer"

\* C15: a failure applying the local description (setupPeerConnection) or the
\* remote description (handleRemoteAnswer) forces teardown: the local media is
\* stopped, the peer connection is closed and cleared, the session id cleared.
C15_NegotiationFailureTearsDown ==
    [][(LocalDescriptionFails \/ RemoteDescriptionFails) => TornDown]_vars

\* the peer connection the service holds reports a terminal connection state
TerminalReported ==
    /\ StepOf("onconnectionstatechange")
    /\ peerConnection # 0
    /\ pcs[peerConnection].state \notin Terminal
    /\ pcs'[peerConnection].state \in Terminal

\* C16: whenever the peer connection of the call in progress reports the
\* connection state disconnected, failed or closed, teardown runs: in the
\* resulting state the session id and the peer connection handle are cleared
\* and the local media is stopped.
C16_TerminalStateTearsDown == [][TerminalReported => TornDown]_vars

\* C17: no message is ever handed to the control channel while the channel is
\* not open: whenever a step hands a message to send, the socket it is handed
\* to is in readyState OPEN.
C17_SendOnlyWhenOpen == last.msg # NoMsg => last.msg.ready = "open"

\* C18: on teardown (endCall) a close_session message is sent if and only if
\* a session id is set and the channel is open; when the channel is not open
\* nothing is sent and no error is raised; and the session id, the peer
\* connection and the local and remote media handles are cleared all the same.
\* A frame counts as sent when it is handed to a socket in readyState OPEN.
C18_CloseSessionIffOpen ==
    [][StepOf("endCall")
        => /\ (last'.msg.action = "close_session" /\ last'.msg.ready = "open")
                <=> (sessionId # 0 /\ ChannelOpen)
           /\ ~ChannelOpen => last'.out = "returned"
           /\ sessionId' = 0 /\ peerConnection' = 0
           /\ localStream' = 0 /\ remoteStream' = 0]_vars

\* C19: a malformed incoming frame is dropped: the onmessage handler raises no
\* error, no callback is invoked, no state changes, and the socket goes on
\* delivering the frames that follow.
C19_MalformedFrameDropped ==
    [][\A s \in Sockets : \A f \in Frames :
        (~f.wf /\ SocketMessage(s, f))
        => /\ last'.out # "SyntaxError"
           /\ emitted' = emitted
           /\ sockets'[s] = "open"
           /\ UNCHANGED <<websocket, isConnected, peerConnection, localStream,
                          remoteStream, sessionId, callbacks, pcs, stops, cs,
                          sp>>]_vars

\* the socket the service holds, open until now, is closed without the service
\* having asked for it
UnsolicitedClose(s) ==
    /\ StepOf("onclose")
    /\ websocket = s
    /\ sockets[s] \in {"open", "closing"} /\ sockets'[s] = "closed"

\* C20: on each unsolicited close of the open control channel the connected
\* flag becomes false and one connection-state notification, with the value
\* false, is emitted.
C20_UnsolicitedCloseNotifiesOnce ==
    [][\A s \in Sockets :
        UnsolicitedClose(s)
        => /\ isConnected' = FALSE
           /\ emitted' = [emitted EXCEPT !["onConnectionStateChange"] =
                             IF callbacks["onConnectionStateChange"] # <<>>
                             THEN @ + 1 ELSE @]
           /\ callbacks["onConnectionStateChange"] # <<>>
                => last'.out = "notified false"]_vars

C20_Witness ==
    /\ last.op = "onclose" /\ last.out = "notified false"
    /\ websocket # 0 /\ sockets[websocket] = "closed"
    /\ ~isConnected
    /\ emitted["onConnectionStateChange"] = 2

\* C21: the control channel is never reopened automatically: a socket is
\* constructed only by an explicit connect of the caller, connect(url) for
\* WebRTCService and the mounting of VideoCallComponent.
C21_NoAutoReconnect ==
    [][/\ \A s \in Sockets :
            (sockets[s] = "unused" /\ sockets'[s] # "unused")
            => last'.op = "connect"
       /\ \A s \in ComponentSockets :
            (component.ws[s] = "unused" /\ component'.ws[s] # "unused")
            => last'.op = "component.mount"]_vars

\* setupPeerConnection invocation j is suspended on createOffer or on
\* setLocalDescription
Suspended(j) == sp[j].status \in {"awaitOffer", "awaitSLD"}

\* C22: a remote answer is applied only after the local offer has been
\* applied: an answer message that arrives while the setupPeerConnection
\* invocation of the held peer connection is still suspended is not passed to
\* setRemoteDescription, and no peer connection ever has a remote description
\* without a local one.
C22_AnswerAfterLocalOffer ==
    [][/\ (/\ StepOf("onmessage") /\ last'.out = "answer"
           /\ peerConnection # 0 /\ Suspended(peerConnection))
          => pcs'[peerConnection].srdCalls = pcs[peerConnection].srdCalls
       /\ \A p \in Setups : pcs'[p].remote # 0 => pcs'[p].local # 0]_vars

\* endCall ran while invocation j was suspended: the peer connection j built
\* has been closed under it, or the handle j assigned has been cleared
EndedWhileSuspended(j) ==
    Suspended(j) /\ (pcs[j].state = "closed" \/ peerConnection = 0)

\* C23: if endCall runs while setupPeerConnection is suspended on createOffer
\* or setLocalDescription, then when the invocation resumes it sends no
\* process_offer message, fails with an error, and leaves peerConnection,
\* localStream and sessionId as endCall left them.
C23_ResumeAfterEndCallFails ==
    [][\A j \in Setups :
        (EndedWhileSuspended(j) /\ sp'[j].status # sp[j].status)
        => /\ sp'[j].status = "threw"
           /\ last'.op = "setupPeerConnection" /\ last'.out = "threw"
           /\ last'.msg = NoMsg
           /\ UNCHANGED <<peerConnection, localStream, sessionId>>]_vars

\* an invocation that failed after endCall had torn its call down
C23_Witness ==
    /\ last.op = "setupPeerConnection" /\ last.out = "threw"
    /\ \E j \in Setups : sp[j].status = "threw" /\ pcs[j].state = "closed"
    /\ peerConnection = 0 /\ localStream = 0 /\ sessionId = 0

\* the user's handler is reached when the slot's chain is invoked
Subscribed(chain) == \E i \in DOMAIN chain : chain[i].kind = "user"

\* C24: once a createSession call has resolved, the expiry of its timer
\* changes nothing: the promise and the session id stay, and a handler
\* subscribed to the session-created slot (registered with on after the call
\* resolved) is still subscribed after the timer has fired.
C24_TimerAfterResolveNoEffect ==
    [][\A k \in Calls :
        (/\ StepOf("timer")
         /\ cs[k].timer = "armed" /\ cs'[k].timer = "fired"
         /\ cs[k].status = "resolved")
        => /\ cs'[k].status = "resolved" /\ cs'[k].value = cs[k].value
           /\ sessionId' = sessionId
           /\ Subscribed(callbacks'["onSessionCreated"])
                = Subscribed(callbacks["onSessionCreated"])]_vars

\* the close event of a socket the service no longer holds
LateClose(s) ==
    /\ StepOf("onclose")
    /\ sockets[s] # "closed" /\ sockets'[s] = "closed"
    /\ websocket # s

\* C25: the connected flag reflects the current socket: isConnected is true
\* only if the socket held in this.websocket is open (or open and about to
\* close); and the late close event of an earlier socket, arriving when a new
\* channel is open, neither sets the flag to false nor emits a connection-state
\* notification.
C25_FlagReflectsCurrentSocket ==
    [][/\ isConnected'
            => (websocket' # 0 /\ sockets'[websocket'] \in {"open", "closing"})
       /\ \A s \in Sockets :
            (LateClose(s) /\ ChannelOpen)
            => (isConnected' /\ emitted' = emitted)]_vars
\* ---- overlapping calls ----------------------------------------------------
\* Overlap scenario: the call scenario with a caller that may invoke
\* setupPeerConnection again while a peer connection is held (line 184
\* assigns this.peerConnection whatever it held).
NextOverlap ==
    \/ ConnectOnce
    \/ \E s \in Sockets : SocketOpen(s)
    \/ \E s \in Sockets, f \in CallFrames : SocketMessage(s, f)
    \/ EndCall
    \/ \E j \in Setups : setupPeerConnection(j)
    \/ \E j \in Setups : SetupOfferResolved(j)
    \/ \E j \in Setups : SetupRejected(j)
    \/ \E j \in Setups : SetupLocalDescriptionSet(j)
    \/ \E p \in Setups, st \in {"connecting", "connected", "disconnected", "failed"} :
            ConnectionStateChange(p, st)

SpecOverlap == Init /\ [][NextOverlap]_vars

\* the connection-state event of pc p, fired while another pc is held
SupersededEvent(p) ==
    /\ StepOf("onconnectionstatechange")
    /\ peerConnection # 0
    /\ peerConnection # p
    /\ pcs[p].state \notin {"unused", "closed"}
    /\ pcs'[p].state # pcs[p].state

\* C26: at most one unclosed peer connection exists at any time; a peer
\* connection is closed before its handle is dropped or overwritten, also
\* when setupPeerConnection is invoked while one is held; and the
\* connection-state callback of a superseded peer connection does not tear
\* down the newer call.
C26_OneUnclosedPeerConnection ==
    [][/\ Cardinality({p \in Setups : pcs'[p].state \notin {"unused", "closed"}}) <= 1
       /\ \A p \in Setups :
            (peerConnection = p /\ peerConnection' # p) => pcs'[p].state = "closed"
       /\ \A p \in Setups :
            SupersededEvent(p) =>
                UNCHANGED <<peerConnection, localStream, sessionId>>]_vars

\* the third statement of C26 alone
C26_SupersededEventKeepsCall ==
    [][\A p \in Setups :
            SupersededEvent(p) =>
                UNCHANGED <<peerConnection, localStream, sessionId>>]_vars
====
